---------------------------- MODULE Spec2Model ----------------------------
(***************************************************************************)
(* A model of the keyboard scancode bridge (src/task/keyboard.rs), of the  *)
(* VGA text-mode writer (src/vga_buffer.rs) and of the simple executor     *)
(* (src/task/simple_executor.rs) of blog_os.                               *)
(*                                                                         *)
(* The module holds several specifications over one set of variables; a    *)
(* specification leaves the variables of the other subsystems unchanged.   *)
(*   SpecKbd   : SCANCODE_QUEUE, WAKER, add_scancode (interrupt context)   *)
(*               interleaved with the steps of ScancodeStream::poll_next.  *)
(*   SpecVga   : Writer::write_byte and Writer::write_string on the text   *)
(*               buffer.                                                   *)
(*   SpecPrint : _print in the normal context, step by step, interleaved   *)
(*               with a keyboard interrupt whose handler prints.           *)
(*   SpecLines : println! called line after line, past the screen height.  *)
(*   SpecColor : ColorCode::new on every pair of colours.                  *)
(*   SpecExec  : SimpleExecutor::spawn and ::run on opaque tasks, with     *)
(*               invocations of the wakers handed to them.                 *)
(*   SpecRun   : SimpleExecutor::run on print_keypresses() and opaque      *)
(*               tasks, with the keyboard interrupt; weakly fair.          *)
(***************************************************************************)
EXTENDS Integers, Sequences, FiniteSets, TLC

VARIABLES
    \* ---- src/task/keyboard.rs ----
    queue_init,      \* SCANCODE_QUEUE: TRUE once the OnceCell is initialised
    queue,           \* the bytes held by the ArrayQueue, oldest first
    waker,           \* WAKER: the AtomicWaker's slot (NoWaker or a waker)
    stream,          \* TRUE once a ScancodeStream value exists
    pc,              \* position of the consumer inside poll_next
    popped,          \* the local `scancode` bound by the second pop
    poll_ret,        \* what the last completed poll_next call returned
    panicked,        \* TRUE once the normal context has panicked
    printed,         \* the diagnostics add_scancode handed to println!
    \* ---- history of the keyboard bridge (not read by the code) ----
    pushed,          \* bytes whose push succeeded, in push order
    yielded,         \* bytes returned in Poll::Ready(Some(_)), in order
    calls,           \* number of add_scancode calls made so far
    last_push,       \* outcome of the latest add_scancode call
    wake_calls,      \* number of WAKER.wake() calls
    invoked,         \* number of times a registered waker was invoked
    woken,           \* the waker registered last has been invoked since
    path,            \* the path the last completed poll_next took
    pops,            \* queue.pop() calls made by the current or last poll
    empties,         \* how many of them found the queue empty
    news,            \* number of ScancodeStream::new() calls
    constructed,     \* number of times ArrayQueue::new ran
    \* ---- src/vga_buffer.rs ----
    writer,          \* WRITER: column_position, color_code, buffer
    \* ---- history of the writer (not read by the code) ----
    prev_writer,     \* the writer as it was before the latest operation
    last_op,         \* the latest operation on the writer and its argument
    vga_ops,         \* number of operations on the writer so far
    \* ---- _print and the keyboard interrupt (src/vga_buffer.rs 172-179) ----
    interrupts,      \* the CPU's interrupt flag: TRUE when interrupts are enabled
    writer_lock,     \* who holds the spin::Mutex around WRITER
    main_pc,         \* position of the normal context inside _print
    main_saved,      \* without_interrupts' saved flag, normal context
    main_arg,        \* the text the normal context is printing
    irq_pc,          \* position of the keyboard interrupt handler
    irq_saved,       \* without_interrupts' saved flag, handler
    irq_msg,         \* the diagnostic the handler is printing
    prints,          \* number of _print calls the normal context completed
    \* ---- println! line after line (src/vga_buffer.rs 188-211) ----
    line_text,       \* the text the lines printed share; a line number follows it
    lines,           \* the lines printed so far, oldest first (history)
    \* ---- ColorCode::new (src/vga_buffer.rs 29-33) ----
    cc_foreground,   \* the foreground colour given to ColorCode::new
    cc_background,   \* the background colour given to ColorCode::new
    cc_code,         \* the byte of the ColorCode it returned
    cc_made,         \* TRUE once ColorCode::new has returned
    \* ---- src/task/simple_executor.rs ----
    task_queue,      \* SimpleExecutor.task_queue: the tasks, front first
    exec_pc,         \* position of the normal context around and inside run()
    current,         \* the local `task` of run(): the task popped, or NoTask
    poll_result,     \* what task.poll returned, until the match has used it
    spawned,         \* number of spawn calls; tasks are named 1, 2, .. in that order
    kbd_task,        \* the task made of print_keypresses(), or NoTask
    kbd_pc,          \* position of print_keypresses() (keyboard.rs 72-86)
    \* ---- history of the executor (not read by the code) ----
    poll_log,        \* one record per task.poll call, oldest first
    finished,        \* the tasks whose poll has returned Poll::Ready
    wakes,           \* per task: wake calls on its waker since its latest poll
    tracking,        \* a byte has been pushed since the consumer was last resumed
    lag              \* polls of other tasks made while `tracking`

kvars == <<queue_init, queue, waker, stream, pc, popped, poll_ret, panicked,
           printed, pushed, yielded, calls, last_push, wake_calls, invoked,
           woken, path, pops, empties, news, constructed>>

vvars == <<writer, prev_writer, last_op, vga_ops>>

pvars == <<interrupts, writer_lock, main_pc, main_saved, main_arg, irq_pc,
           irq_saved, irq_msg, prints>>

lvars == <<line_text, lines>>

cvars == <<cc_foreground, cc_background, cc_code, cc_made>>

evars == <<task_queue, exec_pc, current, poll_result, spawned, kbd_task,
           kbd_pc, poll_log, finished, wakes, tracking, lag>>

\* The variables added to the keyboard bridge, the writer and _print.
nvars == <<lvars, cvars, evars>>

vars == <<kvars, vvars, pvars, nvars>>

---------------------------------------------------------------------------
(* Program constants and the bounds of the exploration.                    *)

\* ArrayQueue::new(100)
QueueCapacity == 100

\* The number of add_scancode calls a behaviour makes.
MaxCalls == 4

\* How many bytes short of full the pre-filled initial queue is.
StartGap == 1

\* The column a line begun before the first interrupt has reached: far
\* enough for either warning to run over the end of the row.
StartColumn == 60

\* Two scancodes (a make and a break code); the code never inspects them.
Scancodes == {30, 158}

NoWaker == "NoWaker"
TaskWaker == "TaskWaker"

\* The two diagnostics of add_scancode, as the bytes of the string literals:
\* "WARNING: scancode queue full; dropping keyboard input!"
MsgQueueFull ==
    <<87, 65, 82, 78, 73, 78, 71, 58, 32, 115, 99, 97, 110, 99, 111, 100,
      101, 32, 113, 117, 101, 117, 101, 32, 102, 117, 108, 108, 59, 32,
      100, 114, 111, 112, 112, 105, 110, 103, 32, 107, 101, 121, 98, 111,
      97, 114, 100, 32, 105, 110, 112, 117, 116, 33>>

\* "WARNING: scancode queue uninitialied!"
MsgQueueUninit ==
    <<87, 65, 82, 78, 73, 78, 71, 58, 32, 115, 99, 97, 110, 99, 111, 100,
      101, 32, 113, 117, 101, 117, 101, 32, 117, 110, 105, 110, 105, 116,
      105, 97, 108, 105, 101, 100, 33>>

---------------------------------------------------------------------------
(* src/vga_buffer.rs                                                       *)

BUFFER_HEIGHT == 25
BUFFER_WIDTH == 80

\* enum Color: the two colours WRITER is built with, and the last variant
Black == 0
Yellow == 14
White == 15

\* enum Color as u8: the sixteen discriminants
Colors == Black..White

\* b'\n', b' ' and the replacement glyph 0xfe
Newline == 10
Space == 32
Replacement == 254

\* The number of operations on the writer a behaviour makes.
MaxWrites == 3

Rows == 0..(BUFFER_HEIGHT - 1)
Cols == 0..(BUFFER_WIDTH - 1)

\* a | b on u8
RECURSIVE BitOr(_, _)
BitOr(a, b) ==
    IF a = 0 THEN b
    ELSE IF b = 0 THEN a
    ELSE (IF a % 2 = 1 \/ b % 2 = 1 THEN 1 ELSE 0) + 2 * BitOr(a \div 2, b \div 2)

\* a << n on u8: the bits shifted past bit 7 are lost
Shl8(a, n) == (a * 2^n) % 256

\* Variant of ColorCode::new: the two colours change places.
ColorCode_new_swapped(foreground, background) ==
    BitOr(Shl8(foreground, 4), background)

\* ColorCode::new: (background as u8) << 4 | (foreground as u8)
ColorCode_new(foreground, background) ==
    BitOr(Shl8(background, 4), foreground)

ScreenChar(byte, color) == [ascii_character |-> byte, color_code |-> color]

\* clear_row: every cell of the row becomes a space in the writer's colour.
clear_row(w, row) ==
    LET blank == ScreenChar(Space, w.color_code) IN
    [w EXCEPT !.buffer[row] = [col \in Cols |-> blank]]

\* The outer loop of new_line from `row` on: row - 1 receives, cell by cell,
\* what row holds at that moment.
RECURSIVE CopyRowsUp(_, _)
CopyRowsUp(chars, row) ==
    IF row >= BUFFER_HEIGHT THEN chars
    ELSE CopyRowsUp([chars EXCEPT ![row - 1] = [col \in Cols |-> chars[row][col]]],
                    row + 1)

\* Variant of new_line: the last row is not cleared.
new_line_no_clear(w) ==
    LET moved == [w EXCEPT !.buffer = CopyRowsUp(w.buffer, 1)]
    IN  [moved EXCEPT !.column_position = 0]

\* Variant of new_line: the row loop starts at row 2, row 0 is never
\* written.
new_line_skip_top(w) ==
    LET moved == [w EXCEPT !.buffer = CopyRowsUp(w.buffer, 2)]
        cleared == clear_row(moved, BUFFER_HEIGHT - 1)
    IN  [cleared EXCEPT !.column_position = 0]

\* new_line: copy rows 1.. up by one, clear the last row, column 0.
new_line(w) ==
    LET moved == [w EXCEPT !.buffer = CopyRowsUp(w.buffer, 1)]
        cleared == clear_row(moved, BUFFER_HEIGHT - 1)
    IN  [cleared EXCEPT !.column_position = 0]

\* Variant of write_byte: no test for a full line before the store.
write_byte_no_wrap(w, byte) ==
    IF byte = Newline THEN new_line(w)
    ELSE LET row == BUFFER_HEIGHT - 1
             col == w.column_position
         IN  [w EXCEPT !.buffer[row][col] = ScreenChar(byte, w.color_code),
                       !.column_position = col + 1]

\* Variant of write_byte: the byte is stored in the first row of the screen.
write_byte_top_row(w, byte) ==
    IF byte = Newline THEN new_line(w)
    ELSE LET w1 == IF w.column_position >= BUFFER_WIDTH THEN new_line(w) ELSE w
             row == 0
             col == w1.column_position
         IN  [w1 EXCEPT !.buffer[row][col] = ScreenChar(byte, w1.color_code),
                        !.column_position = col + 1]

\* write_byte
write_byte(w, byte) ==
    IF byte = Newline THEN new_line(w)
    ELSE LET w1 == IF w.column_position >= BUFFER_WIDTH THEN new_line(w) ELSE w
             row == BUFFER_HEIGHT - 1
             col == w1.column_position
         IN  [w1 EXCEPT !.buffer[row][col] = ScreenChar(byte, w1.color_code),
                        !.column_position = col + 1]

\* Variant of the match of write_string: every byte is handed on as it is.
Rendered_raw(byte) == byte

\* The match of write_string: the byte handed to write_byte.
Rendered(byte) ==
    IF (byte >= 32 /\ byte <= 126) \/ byte = Newline THEN byte ELSE Replacement

\* write_string: for byte in s.bytes(), the bytes s[lo] .. s[hi] in order.
\* The loop is unfolded by halves, the left half before the right one, which
\* is the same left-to-right sequence of write_byte calls.
RECURSIVE write_string_range(_, _, _, _)
write_string_range(w, s, lo, hi) ==
    IF lo > hi THEN w
    ELSE IF lo = hi THEN write_byte(w, Rendered(s[lo]))
    ELSE LET mid == (lo + hi) \div 2
             left == write_string_range(w, s, lo, mid)
         IN  \* the test is always true; it makes TLC compute `left` first
             IF left.column_position >= 0
             THEN write_string_range(left, s, mid + 1, hi)
             ELSE left

\* Variant of write_string: the loop stops one byte early.
write_string_short(w, s) == write_string_range(w, s, 1, Len(s) - 1)

write_string(w, s) == write_string_range(w, s, 1, Len(s))

\* What the text buffer holds when WRITER is created: the memory at 0xb8000
\* is not initialised by the program. Two contents are explored, a blank
\* screen and one whose rows and cells all differ from their neighbours.
BlankScreen == [row \in Rows |-> [col \in Cols |-> ScreenChar(Space, 7)]]
PatternScreen ==
    [row \in Rows |-> [col \in Cols |->
        ScreenChar(97 + ((3 * row + col) % 26), IF row % 2 = 0 THEN 7 ELSE 31)]]

\* lazy_static! WRITER
InitWriter(chars) ==
    [column_position |-> 0,
     color_code |-> ColorCode_new(Yellow, Black),
     buffer |-> chars]

\* n times the byte b
Rep(n, b) == [i \in 1..n |-> b]

\* The bytes given to write_byte and the strings given to write_string.
\* write_byte is public and stores the byte it is given, whatever it is: 7
\* is a byte write_string never hands to it.
ByteInputs == {Newline, 72, 254, 7}
StringInputs ==
    { <<>>,
      <<72, 105>>,
      <<79, 75, Newline>>,
      <<87, 195, 179, 114>>,
      <<126, 127, 31, 32, 9>>,
      Rep(BUFFER_WIDTH - 1, 120),
      Rep(BUFFER_WIDTH, 121),
      Rep(BUFFER_WIDTH + 1, 122) }

NoOp == [name |-> "none", byte |-> 0, s |-> <<>>]

\* WRITER is a lazy static: it is not built before its first use.
NotBuilt == [column_position |-> 0, color_code |-> 0, buffer |-> <<>>]

\* The contents the text buffer may have when WRITER is built.
Screens == {BlankScreen, PatternScreen}

\* WRITER, dereferenced: the first use builds it over the text buffer.
WRITER_deref(w, chars) == IF w = NotBuilt THEN InitWriter(chars) ELSE w

\* println!(msg): the text followed by "\n"
Println(msg) == Append(msg, Newline)

\* WRITER.lock().write_fmt(args): one write_fmt on the locked writer, which
\* the first use builds.
WriteFmt(s) ==
    \E chars \in Screens :
        LET w == WRITER_deref(writer, chars) IN
        /\ writer' = write_string(w, s)
        /\ prev_writer' = w
        /\ last_op' = [name |-> "write_string", byte |-> 0, s |-> s]
        /\ vga_ops' = vga_ops + 1

\* _print(s) from its call to its return, taken as one step by a context
\* that nothing interrupts during it: without_interrupts and the lock leave
\* the interrupt flag and the mutex as they found them, the writer has
\* written s.
PrintAtOnce(s) == WriteFmt(s)

InitVga ==
    /\ writer \in {InitWriter(BlankScreen), InitWriter(PatternScreen)}
    /\ prev_writer = writer
    /\ last_op = NoOp
    /\ vga_ops = 0

WriteByte ==
    /\ vga_ops < MaxWrites
    /\ \E byte \in ByteInputs :
        /\ writer' = write_byte(writer, byte)
        /\ last_op' = [name |-> "write_byte", byte |-> byte, s |-> <<>>]
    /\ prev_writer' = writer
    /\ vga_ops' = vga_ops + 1
    /\ UNCHANGED <<kvars, pvars>>

WriteString ==
    /\ vga_ops < MaxWrites
    /\ \E s \in StringInputs :
        /\ writer' = write_string(writer, s)
        /\ last_op' = [name |-> "write_string", byte |-> 0, s |-> s]
    /\ prev_writer' = writer
    /\ vga_ops' = vga_ops + 1
    /\ UNCHANGED <<kvars, pvars>>

NextVga ==
    \/ WriteByte /\ UNCHANGED nvars
    \/ WriteString /\ UNCHANGED nvars

---------------------------------------------------------------------------
(* crossbeam ArrayQueue<u8> and futures AtomicWaker, as the code uses them *)

\* queue.push(scancode): Ok(()) and the byte at the back, or Err on a full
\* queue with the queue untouched.
ArrayQueue_push(q, b) ==
    IF Len(q) < QueueCapacity
    THEN [ok |-> TRUE, q |-> Append(q, b)]
    ELSE [ok |-> FALSE, q |-> q]

\* queue.pop(): Ok(oldest byte) and the rest, or Err(PopError) when empty.
ArrayQueue_pop(q) ==
    IF q # <<>>
    THEN [ok |-> TRUE, val |-> Head(q), q |-> Tail(q)]
    ELSE [ok |-> FALSE, val |-> 0, q |-> q]

\* WAKER.wake(): take the registered waker, if any, and invoke it.
AtomicWaker_wake(slot) ==
    [slot |-> NoWaker, invoked |-> slot # NoWaker]

\* WAKER.register(&cx.waker()): the slot holds the caller's waker,
\* replacing whatever it held. A wake() that arrives while the registration
\* is in progress makes register invoke the new waker and leave the slot
\* empty, which is the outcome of register followed by wake.
AtomicWaker_register(slot, w) == w

\* WAKER.take(): empty the slot without invoking the waker.
AtomicWaker_take(slot) == NoWaker

---------------------------------------------------------------------------
(* src/task/keyboard.rs                                                    *)

\* The queue the pre-filled initial state holds: n pushes after new().
Fill(n) == [i \in 1..n |-> IF i % 2 = 1 THEN 30 ELSE 158]

\* The state right after boot: nothing constructed.
InitFresh ==
    /\ queue_init = FALSE
    /\ queue = <<>>
    /\ stream = FALSE
    /\ pushed = <<>>
    /\ news = 0
    /\ constructed = 0

\* A state reached from boot by ScancodeStream::new() followed by
\* QueueCapacity - StartGap add_scancode interrupts and no poll.
InitFilled ==
    /\ queue_init = TRUE
    /\ queue = Fill(QueueCapacity - StartGap)
    /\ stream = TRUE
    /\ pushed = Fill(QueueCapacity - StartGap)
    /\ news = 1
    /\ constructed = 1

InitKbd ==
    /\ InitFresh \/ InitFilled
    /\ waker = NoWaker
    /\ pc = "idle"
    /\ popped = 0
    /\ poll_ret = "none"
    /\ panicked = FALSE
    /\ printed = <<>>
    /\ yielded = <<>>
    /\ calls = 0
    /\ last_push = "none"
    /\ wake_calls = 0
    /\ invoked = 0
    /\ woken = FALSE
    /\ path = "none"
    /\ pops = 0
    /\ empties = 0

\* Variant of new(): a later call replaces the queue by a fresh empty one
\* instead of failing.
New_reinit ==
    /\ pc = "idle"
    /\ ~panicked
    /\ news' = news + 1
    /\ queue_init' = TRUE
    /\ queue' = <<>>
    /\ constructed' = constructed + 1
    /\ stream' = TRUE
    /\ UNCHANGED <<waker, pc, popped, poll_ret, printed, pushed, yielded,
                   calls, last_push, wake_calls, invoked, woken, path, pops,
                   empties, panicked>>
    /\ UNCHANGED <<vvars, pvars>>

\* ScancodeStream::new(): try_init_once(|| ArrayQueue::new(100)).expect(..)
\* The first call initialises the cell with an empty queue and returns a
\* stream; a later call gets Err(AlreadyInit) and expect panics.
New ==
    /\ pc = "idle"
    /\ ~panicked
    /\ news' = news + 1
    /\ IF ~queue_init
       THEN /\ queue_init' = TRUE
            /\ queue' = <<>>
            /\ constructed' = constructed + 1
            /\ stream' = TRUE
            /\ UNCHANGED panicked
       ELSE /\ panicked' = TRUE
            /\ UNCHANGED <<queue_init, queue, stream, constructed>>
    /\ UNCHANGED <<waker, pc, popped, poll_ret, printed, pushed, yielded,
                   calls, last_push, wake_calls, invoked, woken, path, pops,
                   empties>>
    /\ UNCHANGED <<vvars, pvars>>

\* add_scancode, line 12: the push failed; the byte is dropped and a
\* warning is printed.
OnQueueFull ==
    /\ printed' = Append(printed, MsgQueueFull)
    /\ last_push' = "full"
    /\ UNCHANGED <<queue, pushed, waker, wake_calls, invoked, woken, panicked>>

\* add_scancode, line 14: the push succeeded (q is the queue after it);
\* WAKER.wake().
OnPushed(scancode, q) ==
    LET w == AtomicWaker_wake(waker) IN
    /\ queue' = q
    /\ pushed' = Append(pushed, scancode)
    /\ last_push' = "ok"
    /\ waker' = w.slot
    /\ wake_calls' = wake_calls + 1
    /\ invoked' = IF w.invoked THEN invoked + 1 ELSE invoked
    /\ woken' = (woken \/ w.invoked)
    /\ UNCHANGED <<printed, panicked>>

\* add_scancode, line 17: try_get() failed; a warning is printed.
OnQueueUninit ==
    /\ printed' = Append(printed, MsgQueueUninit)
    /\ last_push' = "uninit"
    /\ UNCHANGED <<queue, pushed, waker, wake_calls, invoked, woken, panicked>>

\* Variant of add_scancode: a full queue makes room by discarding its oldest
\* byte (force_push) instead of dropping the new one.
add_scancode_overwrite(scancode) ==
    /\ calls < MaxCalls
    /\ calls' = calls + 1
    /\ IF queue_init
       THEN LET r == ArrayQueue_push(queue, scancode) IN
            IF ~r.ok
            THEN OnPushed(scancode, Append(Tail(queue), scancode))
            ELSE OnPushed(scancode, r.q)
       ELSE OnQueueUninit
    /\ UNCHANGED <<queue_init, stream, pc, popped, poll_ret, yielded, path,
                   pops, empties, news, constructed>>

\* Variant of add_scancode: WAKER.wake() is called whatever the push returned.
add_scancode_wake_always(scancode) ==
    /\ calls < MaxCalls
    /\ calls' = calls + 1
    /\ IF queue_init
       THEN LET r == ArrayQueue_push(queue, scancode) IN
            IF ~r.ok
            THEN LET w == AtomicWaker_wake(waker) IN
                 /\ printed' = Append(printed, MsgQueueFull)
                 /\ last_push' = "full"
                 /\ waker' = w.slot
                 /\ wake_calls' = wake_calls + 1
                 /\ invoked' = IF w.invoked THEN invoked + 1 ELSE invoked
                 /\ woken' = (woken \/ w.invoked)
                 /\ UNCHANGED <<queue, pushed, panicked>>
            ELSE OnPushed(scancode, r.q)
       ELSE OnQueueUninit
    /\ UNCHANGED <<queue_init, stream, pc, popped, poll_ret, yielded, path,
                   pops, empties, news, constructed>>

\* Variant of add_scancode: try_get().expect(..), a panic on an unconstructed
\* queue.
add_scancode_expect(scancode) ==
    /\ calls < MaxCalls
    /\ calls' = calls + 1
    /\ IF queue_init
       THEN LET r == ArrayQueue_push(queue, scancode) IN
            IF ~r.ok THEN OnQueueFull ELSE OnPushed(scancode, r.q)
       ELSE /\ panicked' = TRUE
            /\ last_push' = "uninit"
            /\ UNCHANGED <<queue, pushed, waker, wake_calls, invoked, woken,
                           printed>>
    /\ UNCHANGED <<queue_init, stream, pc, popped, poll_ret, yielded, path,
                   pops, empties, news, constructed>>

\* add_scancode(scancode), the body of the keyboard interrupt handler. It
\* runs to completion between two steps of the interrupted context.
add_scancode(scancode) ==
    /\ calls < MaxCalls
    /\ calls' = calls + 1
    /\ IF queue_init
       THEN LET r == ArrayQueue_push(queue, scancode) IN
            IF ~r.ok THEN OnQueueFull ELSE OnPushed(scancode, r.q)
       ELSE OnQueueUninit
    /\ UNCHANGED <<queue_init, stream, pc, popped, poll_ret, yielded, path,
                   pops, empties, news, constructed>>

\* The keyboard interrupt, taken as one step: add_scancode, and the println!
\* of its warning when it has one. The handler runs with interrupts
\* disabled and finds the WRITER mutex free.
AddScancode ==
    /\ \E scancode \in Scancodes : add_scancode(scancode)
    /\ IF printed' # printed
       THEN PrintAtOnce(Println(printed'[Len(printed')]))
       ELSE UNCHANGED vvars
    /\ UNCHANGED pvars

\* poll_next, lines 44-46: SCANCODE_QUEUE.try_get().expect(..). A stream
\* value is needed to call poll_next at all.
PollStart ==
    /\ pc = "idle"
    /\ stream
    /\ ~panicked
    /\ IF queue_init
       THEN pc' = "pop1" /\ UNCHANGED panicked
       ELSE panicked' = TRUE /\ UNCHANGED pc
    /\ pops' = 0
    /\ empties' = 0
    /\ UNCHANGED <<queue_init, queue, waker, stream, popped, poll_ret,
                   printed, pushed, yielded, calls, last_push, wake_calls,
                   invoked, woken, path, news, constructed>>
    /\ UNCHANGED <<vvars, pvars>>

\* poll_next, lines 49-51: the fast path.
PollPop1 ==
    /\ pc = "pop1"
    /\ pops' = pops + 1
    /\ LET r == ArrayQueue_pop(queue) IN
       IF r.ok
       THEN /\ queue' = r.q
            /\ yielded' = Append(yielded, r.val)
            /\ poll_ret' = "ready"
            /\ path' = "fast"
            /\ pc' = "idle"
            /\ UNCHANGED empties
       ELSE /\ pc' = "register"
            /\ empties' = empties + 1
            /\ UNCHANGED <<queue, yielded, poll_ret, path>>
    /\ UNCHANGED <<queue_init, waker, stream, popped, panicked, printed,
                   pushed, calls, last_push, wake_calls, invoked, woken, news,
                   constructed>>
    /\ UNCHANGED <<vvars, pvars>>

\* poll_next, line 53: WAKER.register(&cx.waker()).
PollRegister ==
    /\ pc = "register"
    /\ waker' = AtomicWaker_register(waker, TaskWaker)
    /\ woken' = FALSE
    /\ pc' = "pop2"
    /\ UNCHANGED <<queue_init, queue, stream, popped, poll_ret, panicked,
                   printed, pushed, yielded, calls, last_push, wake_calls,
                   invoked, path, pops, empties, news, constructed>>
    /\ UNCHANGED <<vvars, pvars>>

\* Variant of the retry: no second pop, Poll::Pending right after the
\* registration.
PollPop2_no_retry ==
    /\ pc = "pop2"
    /\ poll_ret' = "pending"
    /\ path' = "pending"
    /\ pc' = "idle"
    /\ UNCHANGED <<queue_init, queue, waker, stream, popped, panicked, printed,
                   pushed, yielded, calls, last_push, wake_calls, invoked,
                   woken, pops, empties, news, constructed>>
    /\ UNCHANGED <<vvars, pvars>>

\* poll_next, lines 54-60: the retry. Err(PopError) returns Poll::Pending.
PollPop2 ==
    /\ pc = "pop2"
    /\ pops' = pops + 1
    /\ LET r == ArrayQueue_pop(queue) IN
       IF r.ok
       THEN /\ queue' = r.q
            /\ popped' = r.val
            /\ pc' = "take"
            /\ UNCHANGED <<poll_ret, path, empties>>
       ELSE /\ poll_ret' = "pending"
            /\ path' = "pending"
            /\ pc' = "idle"
            /\ empties' = empties + 1
            /\ UNCHANGED <<queue, popped>>
    /\ UNCHANGED <<queue_init, waker, stream, panicked, printed, pushed,
                   yielded, calls, last_push, wake_calls, invoked, woken, news,
                   constructed>>
    /\ UNCHANGED <<vvars, pvars>>

\* Variant of the retry's success arm: the byte popped by the retry is
\* discarded and Poll::Pending is returned.
PollTake_lose ==
    /\ pc = "take"
    /\ waker' = AtomicWaker_take(waker)
    /\ popped' = 0
    /\ poll_ret' = "pending"
    /\ path' = "pending"
    /\ pc' = "idle"
    /\ UNCHANGED <<queue_init, queue, stream, panicked, printed, pushed,
                   yielded, calls, last_push, wake_calls, invoked, woken, pops,
                   empties, news, constructed>>
    /\ UNCHANGED <<vvars, pvars>>

\* Variant of the retry's success arm: WAKER.take() is left out.
PollTake_keep_waker ==
    /\ pc = "take"
    /\ yielded' = Append(yielded, popped)
    /\ popped' = 0
    /\ poll_ret' = "ready"
    /\ path' = "retry"
    /\ pc' = "idle"
    /\ UNCHANGED <<queue_init, queue, waker, stream, panicked, printed, pushed,
                   calls, last_push, wake_calls, invoked, woken, pops,
                   empties, news, constructed>>
    /\ UNCHANGED <<vvars, pvars>>

\* poll_next, lines 56-57: WAKER.take(); Poll::Ready(Some(scancode)).
PollTake ==
    /\ pc = "take"
    /\ waker' = AtomicWaker_take(waker)
    /\ yielded' = Append(yielded, popped)
    /\ popped' = 0
    /\ poll_ret' = "ready"
    /\ path' = "retry"
    /\ pc' = "idle"
    /\ UNCHANGED <<queue_init, queue, stream, panicked, printed, pushed,
                   calls, last_push, wake_calls, invoked, woken, pops,
                   empties, news, constructed>>
    /\ UNCHANGED <<vvars, pvars>>

\* The keyboard bridge as it is at boot.
KbdAtBoot == InitKbd /\ InitFresh

VgaUnused ==
    /\ writer = NotBuilt
    /\ prev_writer = NotBuilt
    /\ last_op = NoOp
    /\ vga_ops = 0

\* The kernel has printed StartColumn bytes without a newline: WRITER is
\* built and the last row holds the begun line.
VgaPrinted ==
    /\ writer = write_string(InitWriter(BlankScreen), Rep(StartColumn, 120))
    /\ prev_writer = writer
    /\ last_op = NoOp
    /\ vga_ops = 0

\* Interrupts are enabled, nobody prints.
InitPrint ==
    /\ interrupts = TRUE
    /\ writer_lock = "free"
    /\ main_pc = "idle"
    /\ main_saved = FALSE
    /\ main_arg = <<>>
    /\ irq_pc = "idle"
    /\ irq_saved = FALSE
    /\ irq_msg = <<>>
    /\ prints = 0

\* No line has been printed by the line test and no colour code made.
LinesUnused ==
    /\ line_text = <<>>
    /\ lines = <<>>

ColorUnused ==
    /\ cc_foreground = Black
    /\ cc_background = Black
    /\ cc_code = 0
    /\ cc_made = FALSE

\* No executor has been created.
NoTask == 0

ExecUnused ==
    /\ task_queue = <<>>
    /\ exec_pc = "setup"
    /\ current = NoTask
    /\ poll_result = "none"
    /\ spawned = 0
    /\ kbd_task = NoTask
    /\ kbd_pc = "start"
    /\ poll_log = <<>>
    /\ finished = {}
    /\ wakes = <<>>
    /\ tracking = FALSE
    /\ lag = 0

NextKbd ==
    \/ New /\ UNCHANGED nvars
    \/ AddScancode /\ UNCHANGED nvars
    \/ PollStart /\ UNCHANGED nvars
    \/ PollPop1 /\ UNCHANGED nvars
    \/ PollRegister /\ UNCHANGED nvars
    \/ PollPop2 /\ UNCHANGED nvars
    \/ PollTake /\ UNCHANGED nvars

\* The interrupt may come before anything was printed, or with a line
\* begun on the screen.
InitSpecKbd ==
    InitKbd /\ (VgaUnused \/ VgaPrinted) /\ InitPrint /\ LinesUnused
    /\ ColorUnused /\ ExecUnused

SpecKbd == InitSpecKbd /\ [][NextKbd]_vars

InitSpecVga ==
    InitVga /\ KbdAtBoot /\ InitPrint /\ LinesUnused /\ ColorUnused
    /\ ExecUnused

SpecVga == InitSpecVga /\ [][NextVga]_vars

---------------------------------------------------------------------------
(* _print (src/vga_buffer.rs 172-179) in the normal context, interleaved   *)
(* with a keyboard interrupt whose handler prints a diagnostic             *)
(* (add_scancode, src/task/keyboard.rs 8-19).                              *)
(*                                                                         *)
(* interrupts::without_interrupts(f) reads the interrupt flag, disables    *)
(* interrupts if they were enabled, runs f, and enables them again if they *)
(* were enabled.  WRITER.lock() spins until the mutex is free.  The CPU    *)
(* enters the handler with interrupts disabled and the return from the     *)
(* handler restores the flag of the interrupted context.                   *)

\* The number of _print calls the normal context makes.
MaxPrints == 2

\* The texts the normal context prints.
PrintInputs == { <<72, 105>>, Println(<<79, 75>>) }

\* The normal context calls _print(args).
PrintCall ==
    /\ irq_pc = "idle"
    /\ main_pc = "idle"
    /\ prints < MaxPrints
    /\ \E s \in PrintInputs : main_arg' = s
    /\ main_pc' = "flags"
    /\ UNCHANGED <<kvars, vvars, interrupts, writer_lock, main_saved, irq_pc,
                   irq_saved, irq_msg, prints>>

\* without_interrupts: read the interrupt flag.
PrintFlags ==
    /\ irq_pc = "idle"
    /\ main_pc = "flags"
    /\ main_saved' = interrupts
    /\ main_pc' = "disable"
    /\ UNCHANGED <<kvars, vvars, interrupts, writer_lock, main_arg, irq_pc,
                   irq_saved, irq_msg, prints>>

\* Variant of _print: the closure is run without disabling interrupts.
PrintDisable_skip ==
    /\ irq_pc = "idle"
    /\ main_pc = "disable"
    /\ main_pc' = "lock"
    /\ UNCHANGED <<kvars, vvars, interrupts, writer_lock, main_saved, main_arg,
                   irq_pc, irq_saved, irq_msg, prints>>

\* without_interrupts: disable interrupts if they were enabled.
PrintDisable ==
    /\ irq_pc = "idle"
    /\ main_pc = "disable"
    /\ interrupts' = IF main_saved THEN FALSE ELSE interrupts
    /\ main_pc' = "lock"
    /\ UNCHANGED <<kvars, vvars, writer_lock, main_saved, main_arg, irq_pc,
                   irq_saved, irq_msg, prints>>

\* WRITER.lock(): the dereference of WRITER builds the writer when this is
\* its first use; the mutex is taken when free, spinning otherwise. A mutex
\* that is held was locked before, so the writer is built then already.
PrintLock ==
    /\ irq_pc = "idle"
    /\ main_pc = "lock"
    /\ writer_lock = "free"
    /\ \E chars \in Screens : writer' = WRITER_deref(writer, chars)
    /\ writer_lock' = "main"
    /\ main_pc' = "write"
    /\ UNCHANGED <<kvars, prev_writer, last_op, vga_ops, interrupts,
                   main_saved, main_arg, irq_pc, irq_saved, irq_msg, prints>>

\* .write_fmt(args).unwrap()
PrintWrite ==
    /\ irq_pc = "idle"
    /\ main_pc = "write"
    /\ WriteFmt(main_arg)
    /\ main_pc' = "unlock"
    /\ UNCHANGED <<kvars, interrupts, writer_lock, main_saved, main_arg, irq_pc,
                   irq_saved, irq_msg, prints>>

\* The guard is dropped at the end of the statement.
PrintUnlock ==
    /\ irq_pc = "idle"
    /\ main_pc = "unlock"
    /\ writer_lock' = "free"
    /\ main_pc' = "restore"
    /\ UNCHANGED <<kvars, vvars, interrupts, main_saved, main_arg, irq_pc,
                   irq_saved, irq_msg, prints>>

\* without_interrupts: enable interrupts if they were enabled.
PrintRestore ==
    /\ irq_pc = "idle"
    /\ main_pc = "restore"
    /\ interrupts' = IF main_saved THEN TRUE ELSE interrupts
    /\ main_pc' = "idle"
    /\ prints' = prints + 1
    /\ UNCHANGED <<kvars, vvars, writer_lock, main_saved, main_arg, irq_pc,
                   irq_saved, irq_msg>>

\* A keyboard interrupt is taken: possible only while interrupts are
\* enabled; the handler starts with them disabled and calls add_scancode,
\* which reaches println! when the push failed or the queue is not there.
IrqEnter ==
    /\ interrupts
    /\ irq_pc = "idle"
    /\ interrupts' = FALSE
    /\ \E scancode \in Scancodes : add_scancode(scancode)
    /\ irq_msg' = IF printed' # printed THEN Println(printed'[Len(printed')])
                  ELSE <<>>
    /\ irq_pc' = IF printed' # printed THEN "flags" ELSE "iret"
    /\ UNCHANGED <<vvars, writer_lock, main_pc, main_saved, main_arg,
                   irq_saved, prints>>

\* The handler's _print: without_interrupts reads the flag and, interrupts
\* being disabled already, leaves it alone.
IrqFlags ==
    /\ irq_pc = "flags"
    /\ irq_saved' = interrupts
    /\ interrupts' = IF interrupts THEN FALSE ELSE interrupts
    /\ irq_pc' = "lock"
    /\ UNCHANGED <<kvars, vvars, writer_lock, main_pc, main_saved, main_arg,
                   irq_msg, prints>>

\* The handler's WRITER.lock(): the dereference builds the writer when this
\* is its first use, and the mutex is taken when free. While the mutex is
\* held the handler spins, and the interrupted context never runs to release
\* it.
IrqLock ==
    /\ irq_pc = "lock"
    /\ writer_lock = "free"
    /\ \E chars \in Screens : writer' = WRITER_deref(writer, chars)
    /\ writer_lock' = "irq"
    /\ irq_pc' = "write"
    /\ UNCHANGED <<kvars, prev_writer, last_op, vga_ops, interrupts, main_pc,
                   main_saved, main_arg, irq_saved, irq_msg, prints>>

IrqWrite ==
    /\ irq_pc = "write"
    /\ WriteFmt(irq_msg)
    /\ irq_pc' = "unlock"
    /\ UNCHANGED <<kvars, interrupts, writer_lock, main_pc, main_saved,
                   main_arg, irq_saved, irq_msg, prints>>

\* The guard is dropped; without_interrupts enables interrupts again only
\* if it had disabled them.
IrqUnlock ==
    /\ irq_pc = "unlock"
    /\ writer_lock' = "free"
    /\ interrupts' = IF irq_saved THEN TRUE ELSE interrupts
    /\ irq_pc' = "iret"
    /\ UNCHANGED <<kvars, vvars, main_pc, main_saved, main_arg, irq_saved,
                   irq_msg, prints>>

\* The handler returns; the interrupted context had interrupts enabled.
IrqReturn ==
    /\ irq_pc = "iret"
    /\ interrupts' = TRUE
    /\ irq_pc' = "idle"
    /\ irq_msg' = <<>>
    /\ UNCHANGED <<kvars, vvars, writer_lock, main_pc, main_saved, main_arg,
                   irq_saved, prints>>

NextPrint ==
    \/ PrintCall /\ UNCHANGED nvars
    \/ PrintFlags /\ UNCHANGED nvars
    \/ PrintDisable /\ UNCHANGED nvars
    \/ PrintLock /\ UNCHANGED nvars
    \/ PrintWrite /\ UNCHANGED nvars
    \/ PrintUnlock /\ UNCHANGED nvars
    \/ PrintRestore /\ UNCHANGED nvars
    \/ IrqEnter /\ UNCHANGED nvars
    \/ IrqFlags /\ UNCHANGED nvars
    \/ IrqLock /\ UNCHANGED nvars
    \/ IrqWrite /\ UNCHANGED nvars
    \/ IrqUnlock /\ UNCHANGED nvars
    \/ IrqReturn /\ UNCHANGED nvars

InitSpecPrint ==
    /\ VgaUnused
    /\ KbdAtBoot
    /\ InitPrint
    /\ LinesUnused
    /\ ColorUnused
    /\ ExecUnused

SpecPrint == InitSpecPrint /\ [][NextPrint]_vars

---------------------------------------------------------------------------
(* Claims about the keyboard bridge, checked under SpecKbd.                *)

\* The byte the retry has popped and poll_next has not yet returned.
InFlight == IF pc = "take" THEN <<popped>> ELSE <<>>

\* A step that is an add_scancode call, a new() call, a return of poll_next.
IsAddScancode == calls' = calls + 1
IsNew == news' = news + 1
IsPollReturn == pc # "idle" /\ pc' = "idle"

\* The column the next byte goes to.
ColumnOf(w) == IF w = NotBuilt THEN 0 ELSE w.column_position

\* println!(msg) has put msg on the screen from column `at` of the last row
\* on. write_byte starts a new line before a byte it finds at column
\* BUFFER_WIDTH, so the text goes on over as many rows as it needs; the
\* newline that ends it scrolls once more. The last byte of the text is on
\* the row above the last, the bytes of an earlier line of it as many rows
\* higher; the last row is blank and the column is 0.
WarningShown(w, at, msg) ==
    LET line(i) == (at + i - 1) \div BUFFER_WIDTH
        last == line(Len(msg))
    IN
    /\ w # NotBuilt
    /\ w.column_position = 0
    /\ \A i \in 1..Len(msg) :
          w.buffer[BUFFER_HEIGHT - 2 - (last - line(i))]
                  [(at + i - 1) % BUFFER_WIDTH]
             = ScreenChar(msg[i], w.color_code)
    /\ \A col \in Cols :
          w.buffer[BUFFER_HEIGHT - 1][col] = ScreenChar(Space, w.color_code)

\* C1: in every interleaving of add_scancode and poll_next, the bytes yielded
\* by poll_next are a prefix of the bytes whose push succeeded, in push
\* order, none duplicated or skipped: the pushed bytes are exactly the
\* yielded ones, then the one in flight, then the queued ones. So once the
\* queue is drained the yielded bytes are exactly the pushed ones.
C1_Fifo ==
    /\ pushed = yielded \o InFlight \o queue
    /\ Len(yielded) <= Len(pushed)
    /\ yielded = SubSeq(pushed, 1, Len(yielded))

\* QueueCapacity pushes, all of them successful, have been followed by as
\* many polls, which yielded exactly those bytes; both scancodes occur.
C1_Witness ==
    /\ Len(yielded) = QueueCapacity
    /\ yielded = pushed
    /\ queue = <<>>
    /\ \E i, j \in 1..Len(yielded) : yielded[i] # yielded[j]

\* C2: the queue never holds more than QueueCapacity bytes; an add_scancode
\* call on a full queue drops the new byte, leaves the queue (and the record
\* of accepted bytes) unchanged, prints the queue-full warning on the screen,
\* wakes nobody and does not panic.
C2_FullDropsNewest ==
    /\ [](Len(queue) <= QueueCapacity)
    /\ [][(IsAddScancode /\ queue_init /\ Len(queue) = QueueCapacity) =>
            /\ queue' = queue
            /\ pushed' = pushed
            /\ printed' = Append(printed, MsgQueueFull)
            /\ WarningShown(writer', ColumnOf(writer), MsgQueueFull)
            /\ panicked' = panicked
            /\ last_push' = "full"]_vars

\* A call on a full queue has dropped its byte: the queue is still full and
\* still starts with the first-pushed bytes that were not yet yielded.
C2_Witness ==
    /\ last_push = "full"
    /\ Len(queue) = QueueCapacity
    /\ printed # <<>>
    /\ printed[Len(printed)] = MsgQueueFull
    /\ WarningShown(writer, 0, MsgQueueFull)
    /\ ~panicked

\* C3: no lost wake-up. There is no state in which poll_next has returned
\* Pending, the queue holds a byte and the waker that poll registered has not
\* been invoked since.
C3_NoLostWakeup ==
    (pc = "idle" /\ poll_ret = "pending" /\ queue # <<>>) => woken

\* poll_next returned Pending and an interrupt enqueued a byte afterwards,
\* which invoked the registered waker.
C3_Witness ==
    /\ pc = "idle"
    /\ poll_ret = "pending"
    /\ queue # <<>>
    /\ woken
    /\ waker = NoWaker

\* C4: poll_next returns Pending only after two pops, the first and the one
\* retry, both of which found the queue empty, and the slot then holds the
\* caller's waker; when poll_next yields a byte the slot is empty and the byte
\* is the oldest byte pushed and not yet yielded.
C4_PollOutcome ==
    [][IsPollReturn =>
        /\ poll_ret' = "pending" =>
              /\ pops' = 2
              /\ empties' = 2
              /\ queue' = <<>>
              /\ waker' = TaskWaker
              /\ yielded' = yielded
        /\ poll_ret' = "ready" =>
              /\ waker' = NoWaker
              /\ pops' \in {1, 2}
              /\ empties' = pops' - 1
              /\ Len(pushed) > Len(yielded)
              /\ yielded' = Append(yielded, pushed[Len(yielded) + 1])]_vars

\* The retry path has yielded a byte that an interrupt enqueued between the
\* first pop and the retry.
C4_Witness ==
    /\ pc = "idle"
    /\ path = "retry"
    /\ poll_ret = "ready"
    /\ pops = 2
    /\ waker = NoWaker
    /\ yielded # <<>>

\* C5: an add_scancode call whose push succeeds calls WAKER.wake() exactly
\* once: a registered waker is invoked once and removed, an empty slot stays
\* empty and nothing is invoked; a call whose push fails (queue full or not
\* constructed) leaves the slot alone and calls no wake.
C5_WakeOnSuccessOnly ==
    [][IsAddScancode =>
        IF queue_init /\ Len(queue) < QueueCapacity
        THEN /\ wake_calls' = wake_calls + 1
             /\ waker' = NoWaker
             /\ invoked' = IF waker = NoWaker THEN invoked ELSE invoked + 1
             /\ queue' = Append(queue, pushed'[Len(pushed')])
        ELSE /\ wake_calls' = wake_calls
             /\ waker' = waker
             /\ invoked' = invoked
             /\ queue' = queue]_vars

\* A successful push has invoked and removed a registered waker, and an
\* earlier or later call has failed without touching the slot.
C5_Witness ==
    /\ last_push = "ok"
    /\ invoked = 1
    /\ waker = NoWaker
    /\ wake_calls >= 2
    /\ printed # <<>>

\* C6: the queue is constructed exactly once. The first new() call creates an
\* empty queue and returns a stream; every later call panics and leaves the
\* existing queue and its bytes unchanged.
C6_ConstructedOnce ==
    /\ [](constructed <= 1)
    /\ [][IsNew =>
            IF news = 0
            THEN /\ ~queue_init /\ queue_init'
                 /\ queue' = <<>>
                 /\ stream'
                 /\ constructed' = 1
                 /\ panicked' = panicked
            ELSE /\ panicked'
                 /\ queue_init /\ queue_init'
                 /\ queue' = queue
                 /\ constructed' = constructed]_vars

\* A second new() call has panicked while the queue held bytes.
C6_Witness ==
    /\ news = 2
    /\ panicked
    /\ queue # <<>>
    /\ constructed = 1

\* C7 as claimed: any use of the queue before it is constructed, by
\* add_scancode too, is fatal.
C7_UninitUseIsFatal ==
    last_push = "uninit" => panicked

\* C7 as the code has it: add_scancode on an unconstructed queue is not
\* fatal: it drops the byte, prints the warning on the screen and returns,
\* and the system runs on. poll_next is never called on an unconstructed queue, a stream
\* existing only once new() has constructed it, so that the only panic is
\* that of a second new().
C7_UninitAddWarns ==
    /\ [](stream => queue_init)
    /\ [][(IsAddScancode /\ ~queue_init) =>
            /\ panicked' = panicked
            /\ printed' = Append(printed, MsgQueueUninit)
            /\ WarningShown(writer', ColumnOf(writer), MsgQueueUninit)
            /\ queue' = queue /\ pushed' = pushed
            /\ waker' = waker
            /\ ~queue_init']_vars
    /\ [](panicked => news >= 2)

\* add_scancode ran before new(), printed its warning after a begun line, so
\* that it ran over the end of the row, and the system went on to construct
\* the queue and accept a byte.
C7_Witness ==
    /\ printed # <<>>
    /\ printed[1] = MsgQueueUninit
    /\ WarningShown(writer, StartColumn, MsgQueueUninit)
    /\ StartColumn + Len(MsgQueueUninit) > BUFFER_WIDTH
    /\ ~panicked
    /\ queue_init
    /\ last_push = "ok"

---------------------------------------------------------------------------
(* Claims about _print and the interrupt handler, checked under SpecPrint. *)

\* C8: the writer lock is only ever held with interrupts masked. The handler
\* never runs while the normal context holds the lock, so the handler's lock
\* acquisition always finds the mutex free and never spins; and once neither
\* context is printing, the lock is free and interrupts are enabled again.
\* Whoever holds the lock holds a writer that is built.
C8_LockOnlyMasked ==
    /\ writer_lock # "free" => ~interrupts
    /\ writer_lock # "free" => writer # NotBuilt
    /\ irq_pc # "idle" => writer_lock # "main"
    /\ irq_pc = "lock" => writer_lock = "free"
    /\ (main_pc = "idle" /\ irq_pc = "idle") =>
          (interrupts /\ writer_lock = "free")

\* The normal context has completed one _print and is inside the next one,
\* interrupted before it disabled interrupts; the handler holds the lock and
\* is about to print its diagnostic.
C8_Witness ==
    /\ prints >= 1
    /\ main_pc = "disable"
    /\ irq_pc = "write"
    /\ writer_lock = "irq"
    /\ irq_msg = Println(MsgQueueUninit)
    /\ writer.column_position > 0

---------------------------------------------------------------------------
(* Claims about the writer, checked under SpecVga.                         *)

LastRow == BUFFER_HEIGHT - 1

\* The latest operation was a write_byte that scrolled: of a newline, or of
\* another byte with the line full.
ScrolledByNewline ==
    last_op.name = "write_byte" /\ last_op.byte = Newline
ScrolledByWrap ==
    /\ last_op.name = "write_byte"
    /\ last_op.byte # Newline
    /\ prev_writer.column_position >= BUFFER_WIDTH

\* C9 as claimed: the column stays below BUFFER_WIDTH in every state.
C9_ColumnBelowWidth ==
    writer.column_position \in 0..(BUFFER_WIDTH - 1)

\* C9 as the code has it: the column is between 0 and BUFFER_WIDTH, both
\* included. It is BUFFER_WIDTH right after the last cell of the row has been
\* written; the next write_byte scrolls first, so the column a byte is
\* stored at is always below BUFFER_WIDTH.
C9_ColumnAtMostWidth ==
    /\ writer.column_position \in 0..BUFFER_WIDTH
    /\ (last_op.name = "write_byte" /\ last_op.byte # Newline) =>
          /\ writer.column_position \in 1..BUFFER_WIDTH
          /\ writer.buffer[LastRow][writer.column_position - 1]
                = ScreenChar(last_op.byte, writer.color_code)
          /\ writer.column_position =
                IF prev_writer.column_position >= BUFFER_WIDTH THEN 1
                ELSE prev_writer.column_position + 1

\* A write_byte has stored the last cell of a row: the column is
\* BUFFER_WIDTH.
C9_Witness ==
    /\ last_op.name = "write_byte"
    /\ last_op.byte # Newline
    /\ prev_writer.column_position = BUFFER_WIDTH - 1
    /\ writer.column_position = BUFFER_WIDTH

\* C10: a scroll, caused by a newline byte or by a byte written with the
\* column at the width, gives every row but the last the previous contents
\* of the row below it, colour attributes included, blanks the last row in
\* the writer's colour, puts the column at 0 and keeps the colour; what row 0
\* held is gone. A scroll caused by a full line is followed, in the same
\* write_byte, by the store of the byte at column 0.
C10_Scroll ==
    (ScrolledByNewline \/ ScrolledByWrap) =>
        /\ \A row \in 0..(BUFFER_HEIGHT - 2) : \A col \in Cols :
              writer.buffer[row][col] = prev_writer.buffer[row + 1][col]
        /\ writer.color_code = prev_writer.color_code
        /\ DOMAIN writer.buffer = Rows
        /\ IF ScrolledByNewline
           THEN /\ writer.column_position = 0
                /\ \A col \in Cols :
                      writer.buffer[LastRow][col]
                         = ScreenChar(Space, prev_writer.color_code)
           ELSE /\ writer.column_position = 1
                /\ writer.buffer[LastRow][0]
                      = ScreenChar(last_op.byte, prev_writer.color_code)
                /\ \A col \in 1..(BUFFER_WIDTH - 1) :
                      writer.buffer[LastRow][col]
                         = ScreenChar(Space, prev_writer.color_code)

\* A byte written on a full line has scrolled a screen of rows that all
\* differ: the full line is now the row above the last, and the last row
\* holds the byte alone.
C10_Witness ==
    /\ ScrolledByWrap
    /\ prev_writer.buffer[0] # prev_writer.buffer[1]
    /\ prev_writer.buffer[LastRow] = [col \in Cols |-> ScreenChar(121, 14)]
    /\ writer.buffer[LastRow - 1] = prev_writer.buffer[LastRow]
    /\ writer.buffer[0] = prev_writer.buffer[1]
    /\ writer.buffer[0][0].color_code = 31
    /\ writer.column_position = 1

\* A byte of the printable range 0x20..0x7e.
Printable(byte) == byte >= 32 /\ byte <= 126

\* The latest operation was a write_string.
WroteString == last_op.name = "write_string"

\* The last row of the screen before the latest operation held spaces only.
PrevLastRowBlank ==
    \A col \in Cols : prev_writer.buffer[LastRow][col].ascii_character = Space

\* C11: a write_string of L printable bytes, L < BUFFER_WIDTH, none a
\* newline, on a writer at column 0 whose last row is blank, leaves the
\* column at L and the cells 0..L-1 of the last row holding the bytes of the
\* string in order, each with the writer's colour; every other cell of the
\* screen is as it was, so nothing has scrolled.
C11_ShortString ==
    LET s == last_op.s
        L == Len(s)
    IN  ( /\ WroteString
          /\ L < BUFFER_WIDTH
          /\ \A i \in 1..L : Printable(s[i])
          /\ prev_writer.column_position = 0
          /\ PrevLastRowBlank ) =>
        /\ writer.column_position = L
        /\ writer.color_code = prev_writer.color_code
        /\ \A i \in 1..L :
              writer.buffer[LastRow][i - 1]
                 = ScreenChar(s[i], prev_writer.color_code)
        /\ \A col \in L..(BUFFER_WIDTH - 1) :
              writer.buffer[LastRow][col] = prev_writer.buffer[LastRow][col]
        /\ \A row \in 0..(BUFFER_HEIGHT - 2) :
              writer.buffer[row] = prev_writer.buffer[row]

\* A string of BUFFER_WIDTH - 1 bytes has been written at column 0 of a
\* blank last row, below rows that are not blank.
C11_Witness ==
    /\ WroteString
    /\ last_op.s = Rep(BUFFER_WIDTH - 1, 120)
    /\ prev_writer.column_position = 0
    /\ PrevLastRowBlank
    /\ prev_writer.buffer[LastRow - 1][0].ascii_character # Space
    /\ writer.column_position = BUFFER_WIDTH - 1
    /\ writer.buffer[LastRow][BUFFER_WIDTH - 2].ascii_character = 120

\* What the claim says a cell holds for a byte of the string.
StoredFor(byte) == IF Printable(byte) THEN byte ELSE Replacement

\* The bytes a cell written through write_string may hold.
StorableBytes == (32..126) \cup {Replacement}

\* The latest write_string had no newline to write and enough room on the
\* line: it did not scroll.
WroteStringInLine ==
    /\ WroteString
    /\ \A i \in 1..Len(last_op.s) : last_op.s[i] # Newline
    /\ prev_writer.column_position + Len(last_op.s) <= BUFFER_WIDTH

\* C13: write_string stores each byte of 0x20..0x7e unchanged and every
\* other byte but the newline as 0xfe, and never stores a newline; after a
\* write_string, a cell holds a byte of 0x20..0x7e, or 0xfe, or is a cell the
\* screen held before the call.
C13_Sanitised ==
    /\ WroteStringInLine =>
          \A i \in 1..Len(last_op.s) :
             writer.buffer[LastRow][prev_writer.column_position + i - 1]
                = ScreenChar(StoredFor(last_op.s[i]), prev_writer.color_code)
    /\ WroteString =>
          LET old == { prev_writer.buffer[row][col] : row \in Rows, col \in Cols }
          IN  \A row \in Rows : \A col \in Cols :
                 /\ writer.buffer[row][col].ascii_character # Newline
                 /\ \/ writer.buffer[row][col].ascii_character \in StorableBytes
                    \/ writer.buffer[row][col] \in old

\* A string with bytes on both sides of the printable range has been written
\* on a screen that holds a byte write_byte stored as it was given.
C13_Witness ==
    /\ WroteStringInLine
    /\ last_op.s = <<126, 127, 31, 32, 9>>
    /\ \E col \in Cols : prev_writer.buffer[LastRow][col].ascii_character = 7
    /\ \E col \in Cols : writer.buffer[LastRow][col].ascii_character = Replacement

\* The latest operation made the writer scroll at least once.
Scrolled ==
    \/ ScrolledByNewline
    \/ ScrolledByWrap
    \/ WroteString /\ ~WroteStringInLine

\* The latest operation was a write_byte of a byte other than the newline,
\* with room left on the line.
WroteByteInLine ==
    /\ last_op.name = "write_byte"
    /\ last_op.byte # Newline
    /\ prev_writer.column_position < BUFFER_WIDTH

\* C20: a write_byte of a byte other than the newline, with the column below
\* BUFFER_WIDTH, changes the cell of the last row at the current column and
\* no other cell, adds one to the column and keeps the colour; the rows above
\* the last change only when the operation scrolls.
C20_WriteByteFrame ==
    /\ WroteByteInLine =>
          LET at == prev_writer.column_position IN
          /\ writer.column_position = at + 1
          /\ writer.color_code = prev_writer.color_code
          /\ writer.buffer[LastRow][at]
                = ScreenChar(last_op.byte, prev_writer.color_code)
          /\ \A row \in Rows : \A col \in Cols :
                (row # LastRow \/ col # at) =>
                    writer.buffer[row][col] = prev_writer.buffer[row][col]
    /\ ~Scrolled =>
          \A row \in 0..(BUFFER_HEIGHT - 2) :
             writer.buffer[row] = prev_writer.buffer[row]

\* A byte has been stored in the middle of a line, on a screen whose rows
\* differ.
C20_Witness ==
    /\ WroteByteInLine
    /\ last_op.byte = 72
    /\ prev_writer.column_position = 2
    /\ prev_writer.buffer[0] # prev_writer.buffer[1]
    /\ writer.buffer[LastRow][2].ascii_character = 72
    /\ writer.column_position = 3

---------------------------------------------------------------------------
(* println! line after line, as test_println_many and test_println_output  *)
(* do (src/vga_buffer.rs 188-211): every line is shorter than BUFFER_WIDTH  *)
(* and ends with a newline.  So that the order of the lines can be seen on  *)
(* the screen, a line is a text followed by the two digits of its number.   *)

\* The number of lines a behaviour prints: more than the screen has rows.
MaxLines == 27

\* The texts of the lines: none, a short one, and the longest that leaves
\* the line shorter than BUFFER_WIDTH.
LineTexts == { <<>>, <<108, 105, 110, 101, 32>>, Rep(BUFFER_WIDTH - 3, 120) }

\* The n-th line: the text, then n in two decimal digits.
Line(text, n) == text \o <<48 + ((n \div 10) % 10), 48 + (n % 10)>>

InitLines ==
    /\ line_text \in LineTexts
    /\ lines = <<>>

\* println!("{}{:02}", line_text, n)
PrintLine ==
    /\ Len(lines) < MaxLines
    /\ LET line == Line(line_text, Len(lines) + 1) IN
       /\ WriteFmt(Println(line))
       /\ lines' = Append(lines, line)
    /\ UNCHANGED line_text
    /\ UNCHANGED <<kvars, pvars, cvars, evars>>

NextLines == PrintLine

InitSpecLines ==
    InitVga /\ InitLines /\ KbdAtBoot /\ InitPrint /\ ColorUnused /\ ExecUnused

SpecLines == InitSpecLines /\ [][NextLines]_vars

\* The row shows `line` from column 0: its first cells hold the bytes of the
\* line in order, in the writer's colour.
Shows(row, line) ==
    \A i \in 1..Len(line) :
       writer.buffer[row][i - 1] = ScreenChar(line[i], writer.color_code)

\* The cells of the row from column `from` on are spaces in the writer's
\* colour.
BlankFrom(row, from) ==
    \A col \in from..(BUFFER_WIDTH - 1) :
       writer.buffer[row][col] = ScreenChar(Space, writer.color_code)

\* The number of lines the screen can show above its last row.
Shown == IF Len(lines) < BUFFER_HEIGHT - 1 THEN Len(lines) ELSE BUFFER_HEIGHT - 1

\* C12: after k lines, each shorter than BUFFER_WIDTH and ended by a
\* newline, whatever k is, the column is 0, the last row is blank, and for
\* 1 <= j <= min(k, BUFFER_HEIGHT - 1) the row BUFFER_HEIGHT - 1 - j shows the
\* j-th most recent line from column 0, so the lines are in the order they
\* were written with the latest on row BUFFER_HEIGHT - 2; no row shows an
\* earlier line.  A line printed on a row that a scroll had cleared is
\* followed by spaces.
C12_LinesScroll ==
    LET k == Len(lines) IN
    /\ writer.column_position = 0
    /\ DOMAIN writer.buffer = Rows
    /\ k >= 1 => BlankFrom(LastRow, 0)
    /\ \A j \in 1..Shown :
          /\ Shows(LastRow - j, lines[k - j + 1])
          /\ k - j + 1 > 1 => BlankFrom(LastRow - j, Len(lines[k - j + 1]))
    /\ \A i \in 1..(k - Shown) : \A row \in Rows : ~Shows(row, lines[i])

\* More lines than the screen has rows have been printed, each of
\* BUFFER_WIDTH - 1 bytes: the first two are gone, the third is on row 0.
C12_Witness ==
    /\ Len(lines) = BUFFER_HEIGHT + 1
    /\ Len(lines[1]) = BUFFER_WIDTH - 1
    /\ Shows(LastRow - 1, lines[BUFFER_HEIGHT + 1])
    /\ Shows(0, lines[3])
    /\ ~Shows(0, lines[2])

---------------------------------------------------------------------------
(* ColorCode::new (src/vga_buffer.rs 29-33) on every pair of colours.      *)

InitColor ==
    /\ cc_foreground \in Colors
    /\ cc_background \in Colors
    /\ cc_code = 0
    /\ cc_made = FALSE

\* ColorCode::new(foreground, background)
MakeColorCode ==
    /\ ~cc_made
    /\ cc_code' = ColorCode_new(cc_foreground, cc_background)
    /\ cc_made' = TRUE
    /\ UNCHANGED <<cc_foreground, cc_background>>
    /\ UNCHANGED <<kvars, vvars, pvars, lvars, evars>>

NextColor == MakeColorCode

InitSpecColor ==
    InitColor /\ KbdAtBoot /\ VgaUnused /\ InitPrint /\ LinesUnused
    /\ ExecUnused

SpecColor == InitSpecColor /\ [][NextColor]_vars

\* The two nibbles of an attribute byte, as the VGA hardware reads them.
LowNibble(byte) == byte % 16
HighNibble(byte) == byte \div 16

\* C17: for each of the 16 x 16 pairs of colours, ColorCode::new gives a
\* byte of 8 bits with the background in bits 4-7 and the foreground in bits
\* 0-3; the two nibbles give the pair back, and no other pair gives the same
\* byte.
C17_ColorCode ==
    cc_made =>
        /\ cc_code \in 0..255
        /\ HighNibble(cc_code) = cc_background
        /\ LowNibble(cc_code) = cc_foreground
        /\ \A f \in Colors : \A b \in Colors :
              ColorCode_new(f, b) = cc_code =>
                 f = cc_foreground /\ b = cc_background

\* The colour code of yellow on white has been made: the background fills
\* the high nibble.
C17_Witness ==
    /\ cc_made
    /\ cc_foreground = Yellow
    /\ cc_background = White
    /\ cc_code = 254

---------------------------------------------------------------------------
(* src/task/simple_executor.rs                                             *)
(*                                                                         *)
(* A Task (task/mod.rs) wraps a future; task.poll(cx) polls that future.   *)
(* The futures spawned here are opaque: a poll returns Poll::Ready(()) or  *)
(* Poll::Pending.  The tasks are named 1, 2, .. in the order of the spawn  *)
(* calls.  spawn and run take &mut self, so every spawn precedes run().    *)

\* The number of tasks spawned, the number of task.poll calls recorded in
\* poll_log, and the number of wake calls counted between two polls of a
\* task.
MaxTasks == 3
MaxPolls == 4
MaxWakes == 2

\* VecDeque::push_back and VecDeque::pop_front
push_back(q, task) == Append(q, task)
pop_front(q) ==
    IF q = <<>> THEN [some |-> FALSE, task |-> NoTask, q |-> q]
    ELSE [some |-> TRUE, task |-> Head(q), q |-> Tail(q)]

\* fn noop(_: *const ()) {}, the wake, wake_by_ref and drop of the waker that
\* dummy_raw_waker builds: what the call does to the executor's queue.
noop(q, task) == q

\* How often the task is in the queue.
Entries(q, task) == Cardinality({i \in 1..Len(q) : q[i] = task})

\* SimpleExecutor::new(), then executor.spawn(task) for an opaque task.
Spawn ==
    /\ exec_pc = "setup"
    /\ spawned < MaxTasks
    /\ task_queue' = push_back(task_queue, spawned + 1)
    /\ spawned' = spawned + 1
    /\ wakes' = Append(wakes, 0)
    /\ UNCHANGED <<exec_pc, current, poll_result, kbd_task, kbd_pc, poll_log,
                   finished, tracking, lag>>
    /\ UNCHANGED <<kvars, vvars, pvars, lvars, cvars>>

\* executor.run() is called.
RunCall ==
    /\ exec_pc = "setup"
    /\ exec_pc' = "loop"
    /\ UNCHANGED <<task_queue, current, poll_result, spawned, kbd_task, kbd_pc,
                   poll_log, finished, wakes, tracking, lag>>
    /\ UNCHANGED <<kvars, vvars, pvars, lvars, cvars>>

\* run, line 44: while let Some(mut task) = self.task_queue.pop_front(). The
\* loop ends, and run returns, when the queue is empty.
RunPop ==
    /\ exec_pc = "loop"
    /\ LET r == pop_front(task_queue) IN
       IF r.some
       THEN /\ task_queue' = r.q
            /\ current' = r.task
            /\ exec_pc' = "poll"
       ELSE /\ exec_pc' = "returned"
            /\ UNCHANGED <<task_queue, current>>
    /\ UNCHANGED <<poll_result, spawned, kbd_task, kbd_pc, poll_log, finished,
                   wakes, tracking, lag>>
    /\ UNCHANGED <<kvars, vvars, pvars, lvars, cvars>>

\* run, lines 45-48: task.poll(&mut context) with a fresh dummy waker, for an
\* opaque task. poll_log records the polls up to the `limit`-th.
task_poll(limit) ==
    /\ exec_pc = "poll"
    /\ current # kbd_task
    /\ \E r \in {"ready", "pending"} :
        /\ poll_result' = r
        /\ poll_log' =
              IF Len(poll_log) < limit
              THEN Append(poll_log, [task |-> current,
                                     result |-> r,
                                     wakes |-> wakes[current],
                                     waiting |-> Len(task_queue)])
              ELSE poll_log
    /\ wakes' = [wakes EXCEPT ![current] = 0]
    /\ lag' = IF tracking /\ lag < MaxTasks THEN lag + 1 ELSE lag
    /\ exec_pc' = "match"
    /\ UNCHANGED <<task_queue, current, spawned, kbd_task, kbd_pc, finished,
                   tracking>>
    /\ UNCHANGED <<kvars, vvars, pvars, lvars, cvars>>

TaskPoll == task_poll(MaxPolls)

\* Variant of the match: a task is put back whatever its poll returned.
RunMatch_requeue_all ==
    /\ exec_pc = "match"
    /\ task_queue' = push_back(task_queue, current)
    /\ finished' = IF poll_result = "ready" THEN finished \cup {current}
                   ELSE finished
    /\ current' = NoTask
    /\ poll_result' = "none"
    /\ exec_pc' = "loop"
    /\ UNCHANGED <<spawned, kbd_task, kbd_pc, poll_log, wakes, tracking, lag>>
    /\ UNCHANGED <<kvars, vvars, pvars, lvars, cvars>>

\* Variant of the match: a pending task is put at the front of the queue.
RunMatch_front ==
    /\ exec_pc = "match"
    /\ IF poll_result = "ready"
       THEN /\ finished' = finished \cup {current}
            /\ UNCHANGED task_queue
       ELSE /\ task_queue' = <<current>> \o task_queue
            /\ UNCHANGED finished
    /\ current' = NoTask
    /\ poll_result' = "none"
    /\ exec_pc' = "loop"
    /\ UNCHANGED <<spawned, kbd_task, kbd_pc, poll_log, wakes, tracking, lag>>
    /\ UNCHANGED <<kvars, vvars, pvars, lvars, cvars>>

\* Variant of the match: a pending task is dropped like a finished one.
RunMatch_drop ==
    /\ exec_pc = "match"
    /\ finished' = IF poll_result = "ready" THEN finished \cup {current}
                   ELSE finished
    /\ current' = NoTask
    /\ poll_result' = "none"
    /\ exec_pc' = "loop"
    /\ UNCHANGED <<task_queue, spawned, kbd_task, kbd_pc, poll_log, wakes,
                   tracking, lag>>
    /\ UNCHANGED <<kvars, vvars, pvars, lvars, cvars>>

\* run, lines 48-51: Poll::Ready(()) drops the task, Poll::Pending puts it
\* at the back of the queue.
RunMatch ==
    /\ exec_pc = "match"
    /\ IF poll_result = "ready"
       THEN /\ finished' = finished \cup {current}
            /\ UNCHANGED task_queue
       ELSE /\ task_queue' = push_back(task_queue, current)
            /\ UNCHANGED finished
    /\ current' = NoTask
    /\ poll_result' = "none"
    /\ exec_pc' = "loop"
    /\ UNCHANGED <<spawned, kbd_task, kbd_pc, poll_log, wakes, tracking, lag>>
    /\ UNCHANGED <<kvars, vvars, pvars, lvars, cvars>>

\* The waker a task was polled with, or a clone of it, is invoked: by an
\* interrupt handler or by another task, at any point of the run loop.
Wake ==
    /\ \E task \in 1..spawned :
        /\ \E i \in 1..Len(poll_log) : poll_log[i].task = task
        /\ wakes[task] < MaxWakes
        /\ task_queue' = noop(task_queue, task)
        /\ wakes' = [wakes EXCEPT ![task] = wakes[task] + 1]
    /\ UNCHANGED <<exec_pc, current, poll_result, spawned, kbd_task, kbd_pc,
                   poll_log, finished, tracking, lag>>
    /\ UNCHANGED <<kvars, vvars, pvars, lvars, cvars>>

NextExec ==
    \/ Spawn
    \/ RunCall
    \/ RunPop
    \/ TaskPoll
    \/ RunMatch
    \/ Wake

InitSpecExec ==
    ExecUnused /\ KbdAtBoot /\ VgaUnused /\ InitPrint /\ LinesUnused
    /\ ColorUnused

SpecExec == InitSpecExec /\ [][NextExec]_vars

---------------------------------------------------------------------------
(* The executor running print_keypresses() (src/task/keyboard.rs 72-86)    *)
(* next to opaque tasks, with the keyboard interrupt.                      *)
(*                                                                         *)
(* print_keypresses creates the stream, then awaits scancodes.next() in a  *)
(* loop: a poll of the task calls poll_next until it returns Pending.  The *)
(* byte it gets goes to the pc_keyboard decoder and the key the decoder    *)
(* returns is printed.                                                     *)

\* The number of tasks spawned next to the keyboard interrupt, and the number
\* of keyboard interrupts.
MaxRunTasks == 2
MaxKeys == 2

\* The run loop is polling the keyboard task.
InKbdTask == exec_pc = "poll" /\ current = kbd_task /\ kbd_task # NoTask

\* executor.spawn(Task::new(keyboard::print_keypresses()))
SpawnKbd ==
    /\ exec_pc = "setup"
    /\ kbd_task = NoTask
    /\ spawned < MaxRunTasks
    /\ task_queue' = push_back(task_queue, spawned + 1)
    /\ kbd_task' = spawned + 1
    /\ spawned' = spawned + 1
    /\ wakes' = Append(wakes, 0)
    /\ UNCHANGED <<exec_pc, current, poll_result, kbd_pc, poll_log, finished,
                   tracking, lag>>
    /\ UNCHANGED <<kvars, vvars, pvars, lvars, cvars>>

\* executor.spawn(task) for an opaque task, before or after the keyboard
\* task.
SpawnOther == spawned < MaxRunTasks /\ Spawn

\* print_keypresses, line 73, at the first poll of the task:
\* ScancodeStream::new()
KbdTaskNew ==
    /\ InKbdTask
    /\ kbd_pc = "start"
    /\ New
    /\ kbd_pc' = "next"
    /\ tracking' = FALSE
    /\ lag' = 0
    /\ UNCHANGED <<task_queue, exec_pc, current, poll_result, spawned,
                   kbd_task, poll_log, finished, wakes>>
    /\ UNCHANGED <<lvars, cvars>>

\* print_keypresses, line 76: scancodes.next().await calls poll_next, in the
\* first poll, after a byte, and when the task is polled again.
KbdTaskCall ==
    /\ InKbdTask
    /\ kbd_pc \in {"next", "suspended"}
    /\ PollStart
    /\ kbd_pc' = "await"
    /\ tracking' = FALSE
    /\ lag' = 0
    /\ UNCHANGED <<task_queue, exec_pc, current, poll_result, spawned,
                   kbd_task, poll_log, finished, wakes>>
    /\ UNCHANGED <<lvars, cvars>>

\* The steps of poll_next inside the task.
KbdTaskPop1 ==
    InKbdTask /\ kbd_pc = "await" /\ PollPop1 /\ UNCHANGED nvars
KbdTaskRegister ==
    InKbdTask /\ kbd_pc = "await" /\ PollRegister /\ UNCHANGED nvars
KbdTaskPop2 ==
    InKbdTask /\ kbd_pc = "await" /\ PollPop2 /\ UNCHANGED nvars
KbdTaskTake ==
    InKbdTask /\ kbd_pc = "await" /\ PollTake /\ UNCHANGED nvars

\* print_keypresses, lines 77-83: keyboard.add_byte(scancode), then
\* process_keyevent, of the pc_keyboard decoder built with Us104Key and
\* ScancodeSet1, on the scancodes explored: 0x1e is the press of the key A
\* and decodes to Unicode('a'), 0x9e is its release and decodes to nothing.
\* The text is what print!("{}", char) is given.
Decoded(scancode) == IF scancode = 30 THEN <<97>> ELSE <<>>

\* print_keypresses, lines 76-84: poll_next returned Poll::Ready(Some(_));
\* the byte is decoded, the key it gives is printed, and the loop goes on.
KbdTaskGot ==
    /\ InKbdTask
    /\ kbd_pc = "await"
    /\ pc = "idle"
    /\ poll_ret = "ready"
    /\ kbd_pc' = "next"
    /\ LET text == Decoded(yielded[Len(yielded)]) IN
       IF text # <<>> THEN PrintAtOnce(text) ELSE UNCHANGED vvars
    /\ UNCHANGED <<task_queue, exec_pc, current, poll_result, spawned,
                   kbd_task, poll_log, finished, wakes, tracking, lag>>
    /\ UNCHANGED <<kvars, pvars, lvars, cvars>>

\* print_keypresses, line 76: poll_next returned Poll::Pending, and so does
\* the poll of the task (simple_executor.rs line 48).
KbdTaskYield ==
    /\ InKbdTask
    /\ kbd_pc = "await"
    /\ pc = "idle"
    /\ poll_ret = "pending"
    /\ kbd_pc' = "suspended"
    /\ poll_result' = "pending"
    /\ exec_pc' = "match"
    /\ UNCHANGED <<task_queue, current, spawned, kbd_task, poll_log, finished,
                   wakes, tracking, lag>>
    /\ UNCHANGED <<kvars, vvars, pvars, lvars, cvars>>

\* The poll of an opaque task next to the keyboard task; not recorded.
TaskPollOther == task_poll(0)

\* The keyboard interrupt. `tracking` notes a byte pushed since the keyboard
\* task last called poll_next.
KbdInterrupt ==
    /\ calls < MaxKeys
    /\ AddScancode
    /\ tracking' = (tracking \/ Len(pushed') > Len(pushed))
    /\ lag' = IF tracking THEN lag ELSE 0
    /\ UNCHANGED <<task_queue, exec_pc, current, poll_result, spawned,
                   kbd_task, kbd_pc, poll_log, finished, wakes>>
    /\ UNCHANGED <<lvars, cvars>>

\* The steps of the normal context once run() has been called.
RunLoop ==
    \/ RunPop
    \/ TaskPollOther
    \/ RunMatch
    \/ KbdTaskNew
    \/ KbdTaskCall
    \/ KbdTaskPop1
    \/ KbdTaskRegister
    \/ KbdTaskPop2
    \/ KbdTaskTake
    \/ KbdTaskGot
    \/ KbdTaskYield

NextRun ==
    \/ SpawnOther
    \/ SpawnKbd
    \/ RunCall
    \/ RunLoop
    \/ KbdInterrupt

\* The normal context runs whenever it has a step to take: nothing but an
\* interrupt handler, which returns, keeps it from running.
SpecRun == InitSpecExec /\ [][NextRun]_vars /\ WF_vars(RunLoop)

---------------------------------------------------------------------------
(* Claims about the executor, checked under SpecExec.                      *)

\* The tasks spawned, and those of them that have not finished.
Tasks == 1..spawned
Unfinished == Tasks \ finished

\* The polls recorded.
Polls == 1..Len(poll_log)

\* The i-th recorded poll is a poll of a task that had been polled before.
IsRepoll(i) == \E k \in 1..(i - 1) : poll_log[k].task = poll_log[i].task

\* The polls i < j are two consecutive polls of one task.
Consecutive(i, j) ==
    /\ i < j
    /\ poll_log[i].task = poll_log[j].task
    /\ \A m \in (i + 1)..(j - 1) : poll_log[m].task # poll_log[i].task

\* A step that invokes a waker.
IsWake ==
    /\ spawned' = spawned
    /\ \E task \in Tasks : wakes'[task] > wakes[task]

\* C14 as claimed: a task whose poll returned Poll::Pending is polled again
\* only after its waker has been invoked at least once, so that with no
\* wake the executor makes no poll.
C14_NoPollWithoutWake ==
    \A i \in Polls : IsRepoll(i) => poll_log[i].wakes >= 1

\* C15 as claimed: the invocations of a task's waker before its next poll,
\* however many, result in one re-poll: once a task has been polled again
\* after its waker was invoked, its next poll comes only after a further
\* invocation.
C15_OneRepollPerWake ==
    \A j \in Polls : \A k \in Polls :
        (IsRepoll(j) /\ poll_log[j].wakes >= 1 /\ Consecutive(j, k)) =>
            poll_log[k].wakes >= 1

\* A task whose waker was invoked twice after its first poll has been polled
\* again, once, and another task has been polled since.
C15_Witness ==
    \E i \in Polls :
        /\ IsRepoll(i)
        /\ poll_log[i].wakes = 2
        /\ i < Len(poll_log)
        /\ poll_log[i + 1].task # poll_log[i].task
        /\ Entries(task_queue, poll_log[i].task) = 1

\* C16: a task whose poll returned Poll::Ready is in the executor no longer
\* and is not polled again; every task spawned and not finished is in the
\* executor, once; run() returns exactly when no unfinished task is left, and
\* so never while a task is pending.
C16_StateOk ==
    /\ \A task \in finished :
          Entries(task_queue, task) = 0 /\ current # task
    /\ \A i \in Polls : \A j \in Polls :
          (i < j /\ poll_log[i].task = poll_log[j].task) =>
              poll_log[i].result = "pending"
    /\ exec_pc # "returned" =>
          \A task \in Unfinished :
             Entries(task_queue, task) + (IF current = task THEN 1 ELSE 0) = 1
    /\ exec_pc = "returned" => Unfinished = {} /\ task_queue = <<>>
C16_StepOk ==
    /\ (exec_pc = "loop" /\ exec_pc' # "loop") =>
          (exec_pc' = "returned" <=> Unfinished = {})
    /\ exec_pc = "returned" => exec_pc' = "returned"
    /\ finished \subseteq finished'
C16_FinishedLeaves == []C16_StateOk /\ [][C16_StepOk]_vars

\* run() has returned after three tasks finished, one of them at its second
\* poll.
C16_Witness ==
    /\ exec_pc = "returned"
    /\ spawned = 3
    /\ finished = {1, 2, 3}
    /\ \E i \in Polls : poll_log[i].result = "pending"

\* A task finished before this recorded poll.
FinishedBefore(task, i) ==
    \E k \in 1..(i - 1) :
        poll_log[k].task = task /\ poll_log[k].result = "ready"

\* C19: the tasks are polled first in the order they were spawned, and
\* between two consecutive polls of a task every other task that had not
\* finished is polled exactly once, the finished ones not at all.
C19_Fifo ==
    /\ \A i \in Polls : i <= spawned => poll_log[i].task = i
    /\ \A i \in Polls : \A j \in Polls :
          Consecutive(i, j) =>
             \A other \in Tasks \ {poll_log[i].task} :
                Cardinality({m \in (i + 1)..(j - 1) : poll_log[m].task = other})
                   = IF FinishedBefore(other, i) THEN 0 ELSE 1

\* Three tasks have been polled in spawn order, the second finished, the
\* first was polled again after the third.
C19_Witness ==
    /\ spawned = 3
    /\ Len(poll_log) >= 4
    /\ poll_log[2].result = "ready"
    /\ poll_log[3].task = 3
    /\ poll_log[4].task = 1

---------------------------------------------------------------------------
(* The claim about the executor and the keyboard task, checked under       *)
(* SpecRun.                                                                *)

\* C18: once the keyboard task has been spawned and run() called, every byte
\* add_scancode has pushed is eventually yielded by poll_next to the task,
\* given that the run loop keeps taking steps; and from the push to the next
\* poll_next call of the task at most one pass over the queue goes by: each
\* other task is polled at most once.
C18_Yielded(n) == Len(yielded) >= n /\ yielded[n] = pushed[n]
C18_EventuallyYielded ==
    /\ [](lag <= spawned - 1 \/ kbd_task = NoTask)
    /\ \A n \in 1..MaxKeys :
          (kbd_task # NoTask /\ exec_pc # "setup" /\ Len(pushed) >= n)
             ~> C18_Yielded(n)

\* The keyboard task, spawned after another task that is still pending, has
\* been given two bytes; the waker it had registered was invoked by a push.
C18_Witness ==
    /\ spawned = 2
    /\ kbd_task = 2
    /\ finished = {}
    /\ Len(yielded) = 2
    /\ yielded = pushed
    /\ invoked >= 1
    /\ kbd_pc = "next"

===========================================================================
